---- MODULE Spec2Model ----
(***************************************************************************)
(* Model of the JSSP package: the tabu-search coordinator of               *)
(* JSSP/solver.py (Solver._tabu_search) and the instance intake of         *)
(* JSSP/data.py (FJSData, CSVData, Data.convert_fjs_to_csv,                *)
(* Data.get_setup_time).                                                   *)
(*                                                                         *)
(* Three specifications share the variables:                               *)
(*   Spec       the coordinator and its worker processes;                  *)
(*   SpecData   the intakes and the fjs -> csv conversion;                 *)
(*   SpecSetup  setup-time lookups on a loaded instance.                   *)
(*                                                                         *)
(* The modules solution, tabu_search and genetic_algorithm, which          *)
(* solver.py imports, are modelled from the design document of the         *)
(* package: the Solution and its feasibility, the neighbor moves, the      *)
(* crossover, the evaluator, the tabu-search worker and the GA engine.     *)
(*   SpecMoves  neighbor moves and crossover on feasible Solutions;        *)
(*   SpecEval   the makespan evaluator;                                    *)
(*   SpecWorker the iterations of a tabu-search worker, in two runs;       *)
(*   SpecGA     Solver._genetic_algorithm and the engine's steps.          *)
(*                                                                         *)
(* Three more specifications of the coordinator:                           *)
(*   SpecRepeat     calls repeated on one Solver object;                   *)
(*   SpecConcurrent two Solver objects called at the same time;            *)
(*   SpecLive       a call under fair scheduling, workers iterating.       *)
(***************************************************************************)
EXTENDS Integers, Sequences, FiniteSets, TLC

VARIABLES
    \* ---- Solver object (solver.py) ----
    pc,                 \* position of the coordinator inside _tabu_search
    args,               \* arguments of the call in progress / last call
    ts_parameters,      \* Solver.ts_parameters
    ts_benchmark,       \* Solver.ts_benchmark
    ts_all_solutions,   \* Solver.ts_all_solutions
    ts_iterations,      \* Solver.ts_iterations (and the four sibling series)
    ts_best_solution,   \* Solver.ts_best_solution
    tmp_dir,            \* JSSP/tabu_search/tmp and the files solution<id> in it
    processes,          \* the list of mp.Process objects of the call
    idx,                \* loop index of the join loop / the collect loop
    outcome,            \* "none", "running", "returned" or the error raised
    before,             \* persistent state at the entry of the call
    calls,              \* number of _tabu_search calls begun on the Solver
    solvers,            \* two Solver objects called at the same time, sharing tmp_dir
    ts_workers,         \* stopping condition and progress of the workers
    \* ---- instance data (data.py) ----
    fjs_file,           \* the .fjs input file
    csv_files,          \* the three csv files of a directory
    fjs_data,           \* the FJSData object
    csv_data,           \* the CSVData object
    convert_status,     \* how convert_fjs_to_csv ended
    setup_query,        \* arguments and result of the last get_setup_time
    \* ---- search core (Solution, neighbor moves, crossover, evaluator) ----
    instance,           \* the Instance the search runs on
    solution_a,         \* a Solution: the one a move perturbs, the parent A
    solution_b,         \* the parent B of a crossover
    child,              \* the child of the crossover, <<>> before it
    last_move,          \* the last operation applied to solution_a
    makespan,           \* what the evaluator returned for solution_a
    \* ---- tabu-search worker ----
    worker,             \* the state of the worker in each of two runs
    \* ---- genetic algorithm (solver.py and the GA engine) ----
    ga_parameters,      \* Solver.ga_parameters
    ga_result_population, \* Solver.ga_result_population, the engine's population
    ga_best_solution,   \* Solver.ga_best_solution
    ga_pc,              \* position inside _genetic_algorithm
    ga_step             \* what the last generational step of the engine did

session_vars == <<calls, solvers, ts_workers>>
solver_vars == <<pc, args, ts_parameters, ts_benchmark, ts_all_solutions,
                 ts_iterations, ts_best_solution, tmp_dir, processes, idx,
                 outcome, before, session_vars>>
data_vars == <<fjs_file, csv_files, fjs_data, csv_data, convert_status,
               setup_query>>
search_vars == <<instance, solution_a, solution_b, child, last_move, makespan>>
worker_vars == <<worker>>
ga_vars == <<ga_parameters, ga_result_population, ga_best_solution, ga_pc, ga_step>>
core_vars == <<search_vars, worker_vars, ga_vars>>
vars == <<solver_vars, data_vars, core_vars>>

----------------------------------------------------------------------------
\* Bounds of the model.
MaxProcesses == 2       \* num_processes ranges over 1..MaxProcesses
MaxInitial == 2         \* longest caller-supplied initial_solutions list
MaxMakespan == 2        \* makespans range over 1..MaxMakespan

\* A Solution object, reduced to what the coordinator uses of it: its
\* makespan (the ordering key of Solution) and whether its rows are feasible.
\* The coordinator never reads the rows, so one infeasible Solution stands for
\* all of them.
FeasibleSolutions == [type : {"Solution"}, makespan : 1..MaxMakespan, feasible : {TRUE}]
InfeasibleSolutions == [type : {"Solution"}, makespan : {1}, feasible : {FALSE}]
Solutions == FeasibleSolutions \cup InfeasibleSolutions

\* An object that is not a Solution, and the value None of ts_best_solution.
NotASolution == [type |-> "int", makespan |-> 0, feasible |-> FALSE]
NoSolution == [type |-> "NoneType", makespan |-> 0, feasible |-> FALSE]

\* isinstance(s, solution.Solution)
IsSolution(s) == s.type = "Solution"

SeqsUpTo(S, n) == UNION {[1..k -> S] : k \in 0..n}

\* min(list) of Solutions: the first element that no element is less than.
Min(list) ==
    LET least == CHOOSE i \in 1..Len(list) :
                    /\ \A j \in 1..Len(list) : list[i].makespan <= list[j].makespan
                    /\ \A j \in 1..(i - 1) : list[j].makespan > list[i].makespan
    IN  list[least]

\* max(0, n)
Max0(n) == IF n > 0 THEN n ELSE 0

\* The temporary directory: absent, or a map from tabu_id to the content of
\* the file solution<tabu_id>.
NoDir == [exists |-> FALSE, files |-> <<>>]
EmptyDir == [exists |-> TRUE, files |-> <<>>]

\* The persistent state of the Solver object and of the file system.
Persistent == [ts_parameters |-> ts_parameters, ts_benchmark |-> ts_benchmark,
               ts_all_solutions |-> ts_all_solutions,
               ts_iterations |-> ts_iterations,
               ts_best_solution |-> ts_best_solution, tmp_dir |-> tmp_dir]

NoArgs == [num_processes |-> 0, given |-> FALSE, initial_solutions |-> <<>>,
           benchmark |-> FALSE]

NoParameters == [processes |-> 0, initial_solutions |-> <<>>]

SolverInit ==
    /\ pc = "idle"
    /\ args = NoArgs
    /\ ts_parameters = NoParameters
    /\ ts_benchmark = FALSE
    /\ ts_all_solutions = <<>>
    /\ ts_iterations = <<>>
    /\ ts_best_solution = NoSolution
    /\ tmp_dir = NoDir
    /\ processes = <<>>
    /\ idx = 0
    /\ outcome = "none"
    /\ before = [ts_parameters |-> NoParameters, ts_benchmark |-> FALSE,
                 ts_all_solutions |-> <<>>, ts_iterations |-> <<>>,
                 ts_best_solution |-> NoSolution, tmp_dir |-> NoDir]

\* The type check of the initial solutions (solver.py 145).
TypeCheckFails(given, initial_solutions) ==
    given /\ \E i \in 1..Len(initial_solutions) : ~IsSolution(initial_solutions[i])

\* The seeds: the caller's solutions, padded with random feasible solutions
\* (solver.py 160-163); pad is what generate_feasible_solution returned.
Seeds(num_processes, given, initial_solutions, pad) ==
    IF given THEN initial_solutions \o pad ELSE pad

PadCount(num_processes, given, initial_solutions) ==
    IF given THEN Max0(num_processes - Len(initial_solutions)) ELSE num_processes

\* One mp.Process per seed, all started (solver.py 193-211).
StartProcesses(seeds) ==
    [i \in 1..Len(seeds) |->
        [tabu_id |-> i - 1, seed |-> seeds[i], state |-> "running", emitted |-> <<>>]]

\* The arguments a caller may pass to tabu_search_iter / tabu_search_time;
\* initial_solutions=None is given = FALSE.
CallArgs ==
    {a \in [num_processes : 1..MaxProcesses, given : BOOLEAN,
            initial_solutions : SeqsUpTo(Solutions \cup {NotASolution}, MaxInitial),
            benchmark : BOOLEAN] :
        ~a.given => a.initial_solutions = <<>>}

\* _tabu_search raises TypeError before touching anything.
TabuSearchTypeError ==
    /\ pc = "idle"
    /\ outcome = "none"
    /\ \E a \in CallArgs :
         /\ TypeCheckFails(a.given, a.initial_solutions)
         /\ args' = a
    /\ before' = Persistent
    /\ processes' = <<>>
    /\ outcome' = "TypeError"
    /\ UNCHANGED <<pc, ts_parameters, ts_benchmark, ts_all_solutions,
                   ts_iterations, ts_best_solution, tmp_dir, idx>>
    /\ UNCHANGED <<session_vars, data_vars, core_vars>>

\* _tabu_search up to the first join: parameters stored, temporary directory
\* recreated, one process per seed created and started.
TabuSearchStart ==
    /\ pc = "idle"
    /\ outcome = "none"
    /\ \E a \in CallArgs :
         /\ ~TypeCheckFails(a.given, a.initial_solutions)
         /\ \E pad \in [1..PadCount(a.num_processes, a.given, a.initial_solutions)
                            -> FeasibleSolutions] :
              LET seeds == Seeds(a.num_processes, a.given, a.initial_solutions, pad)
              IN  /\ ts_parameters' = [processes |-> a.num_processes,
                                       initial_solutions |-> seeds]
                  /\ processes' = StartProcesses(seeds)
         /\ args' = a
         /\ ts_benchmark' = a.benchmark
    /\ before' = Persistent
    /\ tmp_dir' = EmptyDir
    /\ pc' = "joining"
    /\ idx' = 1
    /\ outcome' = "running"
    /\ UNCHANGED <<ts_all_solutions, ts_iterations, ts_best_solution>>
    /\ UNCHANGED <<session_vars, data_vars, core_vars>>

\* What a worker pickles into solution<tabu_id>: its best Solution, and in
\* benchmark mode the tuple of the solution and its series.
WorkerFile(tabu_id, best, benchmark) ==
    [solution |-> best, results |-> IF benchmark THEN <<tabu_id>> ELSE <<>>]

\* A worker process ends after writing its result file.
WorkerEmit(i) ==
    /\ i \in 1..Len(processes)
    /\ processes[i].state = "running"
    /\ tmp_dir.exists
    /\ \E m \in 1..processes[i].seed.makespan :
         LET best == [processes[i].seed EXCEPT !.makespan = m]
         IN  /\ tmp_dir' = [tmp_dir EXCEPT !.files =
                    (processes[i].tabu_id :> WorkerFile(processes[i].tabu_id, best, args.benchmark)) @@ @]
             /\ processes' = [processes EXCEPT ![i].state = "done", ![i].emitted = <<best>>]
    /\ UNCHANGED <<pc, args, ts_parameters, ts_benchmark, ts_all_solutions,
                   ts_iterations, ts_best_solution, idx, outcome, before>>
    /\ UNCHANGED <<session_vars, data_vars, core_vars>>

\* A worker process ends without writing a result file.
WorkerFail(i) ==
    /\ i \in 1..Len(processes)
    /\ processes[i].state = "running"
    /\ processes' = [processes EXCEPT ![i].state = "failed"]
    /\ UNCHANGED <<pc, args, ts_parameters, ts_benchmark, ts_all_solutions,
                   ts_iterations, ts_best_solution, tmp_dir, idx, outcome, before>>
    /\ UNCHANGED <<session_vars, data_vars, core_vars>>

\* Join as it would be if the coordinator did not wait for the process: the
\* loop advances whether or not the idx-th process has ended.
JoinWithoutWaiting ==
    /\ pc = "joining"
    /\ IF idx < Len(processes)
          THEN pc' = "joining" /\ idx' = idx + 1
          ELSE pc' = "collecting" /\ idx' = 0
    /\ UNCHANGED <<args, ts_parameters, ts_benchmark, ts_all_solutions,
                   ts_iterations, ts_best_solution, tmp_dir, processes,
                   outcome, before>>
    /\ UNCHANGED <<session_vars, data_vars, core_vars>>

\* p.join() of the idx-th process returns once that process has ended.
Join ==
    /\ pc = "joining"
    /\ processes[idx].state # "running"
    /\ IF idx < Len(processes)
          THEN pc' = "joining" /\ idx' = idx + 1
          ELSE pc' = "collecting" /\ idx' = 0
    /\ UNCHANGED <<args, ts_parameters, ts_benchmark, ts_all_solutions,
                   ts_iterations, ts_best_solution, tmp_dir, processes,
                   outcome, before>>
    /\ UNCHANGED <<session_vars, data_vars, core_vars>>

\* The ids the coordinator would open if its loop ran one id too far.
CollectedIdsOneTooMany(num_processes) == 0..num_processes

\* The ids whose files the coordinator opens: range(num_processes).
CollectedIds(num_processes) == 0..(num_processes - 1)

\* One pass of the collecting loop: solution<idx> is opened and loaded.
CollectResult ==
    /\ pc = "collecting"
    /\ idx \in CollectedIds(args.num_processes)
    /\ idx \in DOMAIN tmp_dir.files
    /\ ts_all_solutions' = Append(ts_all_solutions, tmp_dir.files[idx].solution)
    /\ ts_iterations' = IF args.benchmark
                           THEN ts_iterations \o tmp_dir.files[idx].results
                           ELSE ts_iterations
    /\ idx' = idx + 1
    /\ UNCHANGED <<pc, args, ts_parameters, ts_benchmark, ts_best_solution,
                   tmp_dir, processes, outcome, before>>
    /\ UNCHANGED <<session_vars, data_vars, core_vars>>

\* open() of a file no worker wrote raises FileNotFoundError out of the call.
CollectMissing ==
    /\ pc = "collecting"
    /\ idx \in CollectedIds(args.num_processes)
    /\ idx \notin DOMAIN tmp_dir.files
    /\ pc' = "idle"
    /\ outcome' = "FileNotFoundError"
    /\ UNCHANGED <<args, ts_parameters, ts_benchmark, ts_all_solutions,
                   ts_iterations, ts_best_solution, tmp_dir, processes, idx,
                   before>>
    /\ UNCHANGED <<session_vars, data_vars, core_vars>>

\* After the loop: the directory is removed and the minimum returned.
ReturnBest ==
    /\ pc = "collecting"
    /\ idx \notin CollectedIds(args.num_processes)
    /\ tmp_dir' = NoDir
    /\ ts_best_solution' = Min(ts_all_solutions)
    /\ pc' = "idle"
    /\ outcome' = "returned"
    /\ UNCHANGED <<args, ts_parameters, ts_benchmark, ts_all_solutions,
                   ts_iterations, processes, idx, before>>
    /\ UNCHANGED <<session_vars, data_vars, core_vars>>

----------------------------------------------------------------------------
\* Repeated calls on one Solver object.

MaxCalls == 2           \* _tabu_search calls on the same Solver object

\* No worker progress recorded.
NoWorkers == [stopping_condition |-> 0, iterations |-> <<>>]

SessionIdle ==
    /\ calls = 0
    /\ solvers = <<>>
    /\ ts_workers = NoWorkers

\* Calls with initial_solutions=None: every seed is generated, so exactly
\* num_processes workers are started.
RepeatCallArgs == {a \in CallArgs : ~a.given}

\* _tabu_search up to the first join, on a Solver object that is fresh or has
\* returned from an earlier call. The parameters are overwritten; the lists
\* created in __init__ (ts_all_solutions, ts_iterations and its siblings) are
\* left as the earlier call filled them.
TabuSearchCall ==
    /\ pc = "idle"
    /\ outcome \in {"none", "returned"}
    /\ calls < MaxCalls
    /\ \E a \in RepeatCallArgs :
         /\ ~TypeCheckFails(a.given, a.initial_solutions)
         /\ \E pad \in [1..PadCount(a.num_processes, a.given, a.initial_solutions)
                            -> FeasibleSolutions] :
              LET seeds == Seeds(a.num_processes, a.given, a.initial_solutions, pad)
              IN  /\ ts_parameters' = [processes |-> a.num_processes,
                                       initial_solutions |-> seeds]
                  /\ processes' = StartProcesses(seeds)
         /\ args' = a
         /\ ts_benchmark' = a.benchmark
    /\ before' = Persistent
    /\ tmp_dir' = EmptyDir
    /\ pc' = "joining"
    /\ idx' = 1
    /\ outcome' = "running"
    /\ calls' = calls + 1
    /\ UNCHANGED <<ts_all_solutions, ts_iterations, ts_best_solution>>
    /\ UNCHANGED <<solvers, ts_workers>>
    /\ UNCHANGED <<data_vars, core_vars>>

----------------------------------------------------------------------------
\* The iterations of the worker processes of a call whose stopping condition
\* is an iteration count.

MaxStoppingCondition == 2   \* the iteration count N ranges over 1..MaxStoppingCondition

\* What the neighborhood of an iteration can come to: a neighbor is moved to,
\* the neighborhood is empty, or every neighbor is in the tabu list.
IterationKinds == {"moved", "empty", "all tabu"}

\* The workers of a call with stopping condition N, none having iterated.
WorkersAtStart(N) ==
    [stopping_condition |-> N,
     iterations |-> [i \in 1..(MaxProcesses + MaxInitial) |->
                        [count |-> 0, last |-> "none"]]]

\* One iteration of the worker in process i: whatever the neighborhood comes
\* to, the iteration is counted.
WorkerIteration(i) ==
    /\ i \in 1..Len(processes)
    /\ processes[i].state = "running"
    /\ ts_workers.iterations[i].count < ts_workers.stopping_condition
    /\ \E kind \in IterationKinds :
         ts_workers' = [ts_workers EXCEPT !.iterations[i] =
                           [count |-> @.count + 1, last |-> kind]]
    /\ UNCHANGED <<pc, args, ts_parameters, ts_benchmark, ts_all_solutions,
                   ts_iterations, ts_best_solution, tmp_dir, processes, idx,
                   outcome, before, calls, solvers>>
    /\ UNCHANGED <<data_vars, core_vars>>

\* The worker in process i meets the stopping condition, writes its best
\* Solution and ends.
WorkerStops(i) ==
    /\ i \in 1..Len(processes)
    /\ ts_workers.iterations[i].count >= ts_workers.stopping_condition
    /\ WorkerEmit(i)

----------------------------------------------------------------------------
\* Two Solver objects of one installation, each in a _tabu_search call with
\* initial_solutions=None and benchmark=False. Each has its own fields; the
\* directory tmp_dir is the one path JSSP/tabu_search/tmp (solver.py 148).

\* A Solver object before its call.
IdleSolver == [pc |-> "idle", num_processes |-> 0, processes |-> <<>>, idx |-> 0,
               ts_all_solutions |-> <<>>, read_from |-> <<>>,
               ts_best_solution |-> NoSolution, outcome |-> "none"]

\* The file a worker of Solver s pickles; writer records whose worker wrote it.
ConcurrentFile(s, tabu_id, best) ==
    [solution |-> best, results |-> <<>>, writer |-> s]

\* Solver s up to its first join: rmtree(ignore_errors=True) and mkdir of the
\* shared path, then one started process per generated seed.
ConcurrentStart(s) ==
    /\ solvers[s].pc = "idle"
    /\ solvers[s].outcome = "none"
    /\ \E W \in 1..MaxProcesses :
         \E pad \in [1..PadCount(W, FALSE, <<>>) -> FeasibleSolutions] :
            solvers' = [solvers EXCEPT ![s] =
                           [@ EXCEPT !.pc = "joining", !.num_processes = W,
                                     !.processes = StartProcesses(Seeds(W, FALSE, <<>>, pad)),
                                     !.idx = 1, !.outcome = "running"]]
    /\ tmp_dir' = EmptyDir
    /\ UNCHANGED <<pc, args, ts_parameters, ts_benchmark, ts_all_solutions,
                   ts_iterations, ts_best_solution, processes, idx, outcome,
                   before, calls, ts_workers>>
    /\ UNCHANGED <<data_vars, core_vars>>

\* A worker of Solver s ends after writing solution<tabu_id> into the shared
\* directory, replacing a file of that name if there is one.
ConcurrentEmit(s, i) ==
    /\ i \in 1..Len(solvers[s].processes)
    /\ solvers[s].processes[i].state = "running"
    /\ tmp_dir.exists
    /\ \E m \in 1..solvers[s].processes[i].seed.makespan :
         LET p == solvers[s].processes[i]
             best == [p.seed EXCEPT !.makespan = m]
         IN  /\ tmp_dir' = [tmp_dir EXCEPT !.files =
                    (p.tabu_id :> ConcurrentFile(s, p.tabu_id, best)) @@ @]
             /\ solvers' = [solvers EXCEPT ![s].processes[i].state = "done",
                                           ![s].processes[i].emitted = <<best>>]
    /\ UNCHANGED <<pc, args, ts_parameters, ts_benchmark, ts_all_solutions,
                   ts_iterations, ts_best_solution, processes, idx, outcome,
                   before, calls, ts_workers>>
    /\ UNCHANGED <<data_vars, core_vars>>

\* A worker of Solver s finds the directory gone: its open() for writing
\* raises and the process ends without a result file.
ConcurrentWriteFails(s, i) ==
    /\ i \in 1..Len(solvers[s].processes)
    /\ solvers[s].processes[i].state = "running"
    /\ ~tmp_dir.exists
    /\ solvers' = [solvers EXCEPT ![s].processes[i].state = "failed"]
    /\ UNCHANGED <<pc, args, ts_parameters, ts_benchmark, ts_all_solutions,
                   ts_iterations, ts_best_solution, tmp_dir, processes, idx,
                   outcome, before, calls, ts_workers>>
    /\ UNCHANGED <<data_vars, core_vars>>

\* p.join() of Solver s.
ConcurrentJoin(s) ==
    /\ solvers[s].pc = "joining"
    /\ solvers[s].processes[solvers[s].idx].state # "running"
    /\ solvers' = [solvers EXCEPT ![s] =
                      IF @.idx < Len(@.processes)
                         THEN [@ EXCEPT !.idx = @ + 1]
                         ELSE [@ EXCEPT !.pc = "collecting", !.idx = 0]]
    /\ UNCHANGED <<pc, args, ts_parameters, ts_benchmark, ts_all_solutions,
                   ts_iterations, ts_best_solution, tmp_dir, processes, idx,
                   outcome, before, calls, ts_workers>>
    /\ UNCHANGED <<data_vars, core_vars>>

\* One pass of the collecting loop of Solver s: whatever file is named
\* solution<idx> in the shared directory is opened and loaded.
ConcurrentCollect(s) ==
    /\ solvers[s].pc = "collecting"
    /\ solvers[s].idx \in CollectedIds(solvers[s].num_processes)
    /\ solvers[s].idx \in DOMAIN tmp_dir.files
    /\ solvers' = [solvers EXCEPT ![s] =
                      [@ EXCEPT !.ts_all_solutions = Append(@, tmp_dir.files[solvers[s].idx].solution),
                                !.read_from = Append(@, tmp_dir.files[solvers[s].idx].writer),
                                !.idx = @ + 1]]
    /\ UNCHANGED <<pc, args, ts_parameters, ts_benchmark, ts_all_solutions,
                   ts_iterations, ts_best_solution, tmp_dir, processes, idx,
                   outcome, before, calls, ts_workers>>
    /\ UNCHANGED <<data_vars, core_vars>>

\* open() of solution<idx> raises FileNotFoundError out of the call of Solver s.
ConcurrentMissing(s) ==
    /\ solvers[s].pc = "collecting"
    /\ solvers[s].idx \in CollectedIds(solvers[s].num_processes)
    /\ solvers[s].idx \notin DOMAIN tmp_dir.files
    /\ solvers' = [solvers EXCEPT ![s].pc = "idle",
                                  ![s].outcome = "FileNotFoundError"]
    /\ UNCHANGED <<pc, args, ts_parameters, ts_benchmark, ts_all_solutions,
                   ts_iterations, ts_best_solution, tmp_dir, processes, idx,
                   outcome, before, calls, ts_workers>>
    /\ UNCHANGED <<data_vars, core_vars>>

\* After the loop of Solver s: shutil.rmtree(tmp_dir) removes the shared
\* directory with everything in it, and the minimum is returned.
ConcurrentReturn(s) ==
    /\ solvers[s].pc = "collecting"
    /\ solvers[s].idx \notin CollectedIds(solvers[s].num_processes)
    /\ tmp_dir.exists
    /\ tmp_dir' = NoDir
    /\ solvers' = [solvers EXCEPT ![s].pc = "idle", ![s].outcome = "returned",
                                  ![s].ts_best_solution = Min(solvers[s].ts_all_solutions)]
    /\ UNCHANGED <<pc, args, ts_parameters, ts_benchmark, ts_all_solutions,
                   ts_iterations, ts_best_solution, processes, idx, outcome,
                   before, calls, ts_workers>>
    /\ UNCHANGED <<data_vars, core_vars>>

\* After the loop of Solver s, the directory being gone: shutil.rmtree(tmp_dir)
\* without ignore_errors raises FileNotFoundError out of the call.
ConcurrentRemoveMissing(s) ==
    /\ solvers[s].pc = "collecting"
    /\ solvers[s].idx \notin CollectedIds(solvers[s].num_processes)
    /\ ~tmp_dir.exists
    /\ solvers' = [solvers EXCEPT ![s].pc = "idle",
                                  ![s].outcome = "FileNotFoundError"]
    /\ UNCHANGED <<pc, args, ts_parameters, ts_benchmark, ts_all_solutions,
                   ts_iterations, ts_best_solution, tmp_dir, processes, idx,
                   outcome, before, calls, ts_workers>>
    /\ UNCHANGED <<data_vars, core_vars>>

----------------------------------------------------------------------------
\* Instance data (data.py).

\* Bounds of the intake model.
MaxJobs == 2            \* job lines of a file, and the declared J
MaxTasks == 2           \* task blocks of a job line, and the declared n_k
MaxOps == 2             \* task blocks (task rows) of a whole file
MaxMachines == 2        \* machines of a file
MaxProcTime == 2        \* processing times / pieces range over -1, 1..MaxProcTime
MaxSpeed == 2           \* RunSpeed ranges over 1..MaxSpeed
MaxSetup == 1           \* setup minutes range over 0..MaxSetup
MaxDim == 3             \* rows of a caller's sequenceDependencyMatrix.csv
MaxQueryOps == 3        \* operations of an instance get_setup_time is asked about

\* seq[i] with Python's zero-based index i >= 0.
At(seq, i) == seq[i + 1]
\* seq[:-1] and seq[1:]
DropLast(seq) == IF seq = <<>> THEN <<>> ELSE SubSeq(seq, 1, Len(seq) - 1)
DropFirst(seq) == IF seq = <<>> THEN <<>> ELSE SubSeq(seq, 2, Len(seq))

\* numpy indexing of an axis of length n: negative indices count from the end,
\* anything else out of [-n, n) raises IndexError.
InBounds(i, n) == -n <= i /\ i < n
NpIndex(i, n) == IF i < 0 THEN i + n ELSE i

RECURSIVE SumSeq(_)
SumSeq(seq) == IF seq = <<>> THEN 0 ELSE seq[1] + SumSeq(Tail(seq))
RECURSIVE MaxSeq(_)
MaxSeq(seq) ==
    IF seq = <<>> THEN 0
    ELSE LET rest == MaxSeq(Tail(seq)) IN IF seq[1] > rest THEN seq[1] ELSE rest
RECURSIVE Flatten(_)
Flatten(seqs) == IF seqs = <<>> THEN <<>> ELSE seqs[1] \o Flatten(Tail(seqs))

\* A float, kept exact as a reduced fraction <<numerator, denominator>>.
Abs(n) == IF n < 0 THEN -n ELSE n
RECURSIVE GCD(_, _)
GCD(a, b) == IF b = 0 THEN a ELSE GCD(b, a % b)
Float(n) == <<n, 1>>
Divide(n, d) == LET g == GCD(Abs(n), d) IN IF n = 0 THEN <<0, 1>> ELSE <<n \div g, d \div g>>
NonNegative(x) == x[1] >= 0

\* np.resize(a, n): a repeated cyclically up to length n; zeros when a is empty.
Resize(a, n) ==
    [m \in 0..(n - 1) |-> IF a = <<>> THEN 0 ELSE At(a, m % Len(a))]

\* The decimal text of a small integer, as a sequence of one-character tokens,
\* and int() of such a text (ValueError when it is not a number).
Digits == <<"0", "1", "2", "3", "4", "5", "6", "7", "8", "9">>
Str(n) == IF n < 0 THEN <<"-", Digits[(-n) + 1]>> ELSE <<Digits[n + 1]>>
IsDigit(c) == \E d \in 1..Len(Digits) : Digits[d] = c
DigitValue(c) == (CHOOSE d \in 1..Len(Digits) : Digits[d] = c) - 1
IsInt(text) ==
    \/ Len(text) = 1 /\ IsDigit(text[1])
    \/ Len(text) = 2 /\ text[1] = "-" /\ IsDigit(text[2])
ParseInt(text) == IF Len(text) = 1 THEN DigitValue(text[1]) ELSE -DigitValue(text[2])

\* text.strip() and text.split(' ')
RECURSIVE LStrip(_)
LStrip(text) == IF text # <<>> /\ text[1] = " " THEN LStrip(Tail(text)) ELSE text
RECURSIVE RStrip(_)
RStrip(text) ==
    IF text # <<>> /\ text[Len(text)] = " " THEN RStrip(DropLast(text)) ELSE text
Strip(text) == RStrip(LStrip(text))
RECURSIVE Split(_)
Split(text) ==
    IF \A i \in 1..Len(text) : text[i] # " " THEN <<text>>
    ELSE LET cut == CHOOSE i \in 1..Len(text) :
                        text[i] = " " /\ \A j \in 1..(i - 1) : text[j] # " "
         IN  <<SubSeq(text, 1, cut - 1)>> \o Split(SubSeq(text, cut + 1, Len(text)))

\* The Usable_Machines field convert_fjs_to_csv writes (data.py 275-282).
FormatUsable(machines) ==
    DropLast(<<"[">> \o Flatten([k \in 1..Len(machines) |-> Str(machines[k]) \o <<" ">>]))
        \o <<"]">>

\* The fields of row[3][1:-1].strip().split(' ') (data.py 391).
UsableFields(text) == Split(Strip(DropLast(DropFirst(text))))
UsableParses(text) ==
    \A k \in 1..Len(UsableFields(text)) : IsInt(UsableFields(text)[k])
ParseUsable(text) == [k \in 1..Len(UsableFields(text)) |-> ParseInt(UsableFields(text)[k])]

\* The task blocks of one job line of an fjs file, as both FJSData.__init__
\* and convert_fjs_to_csv walk them: i = 1; while i < len(task_data); a block
\* at i has task_data[i] pairs (machine, runtime), i += 2 * u + 1.
RECURSIVE TaskBlocks(_, _)
TaskBlocks(task_data, i) ==
    IF i >= Len(task_data) THEN <<>>
    ELSE LET u == At(task_data, i)
             complete == i + 2 * u < Len(task_data)
             has_machines == u = 0 \/ i + 2 * u - 1 < Len(task_data)
             block == [complete |-> complete,
                       has_machines |-> has_machines,
                       machines |-> IF has_machines
                                       THEN [k \in 1..u |-> At(task_data, i + 2 * k - 1) - 1]
                                       ELSE <<>>,
                       runtimes |-> IF complete
                                       THEN [k \in 1..u |-> At(task_data, i + 2 * k)]
                                       ELSE <<>>,
                       has_pieces |-> i + 2 < Len(task_data),
                       pieces |-> IF i + 2 < Len(task_data)
                                     THEN At(task_data, i + 2) ELSE 0]
         IN  IF complete THEN <<block>> \o TaskBlocks(task_data, i + 2 * u + 1)
             ELSE <<block>>

\* The operations of a file in the order the loops meet them, with the
\* job_id, task_id and task_index the loops hold at each.
FileOps(job_lines) ==
    LET blocks == [j \in 1..Len(job_lines) |-> TaskBlocks(job_lines[j], 1)]
        offset(j) == SumSeq([x \in 1..(j - 1) |-> Len(blocks[x])])
    IN  Flatten([j \in 1..Len(job_lines) |->
                    [b \in 1..Len(blocks[j]) |->
                        [job_id |-> j - 1, task_id |-> b - 1, sequence |-> b - 1,
                         task_index |-> offset(j) + b - 1,
                         block |-> blocks[j][b]]]])

\* total_number_of_tasks: the sum of the declared task counts (data.py 480).
DeclaredTasks(job_lines) == SumSeq([j \in 1..Len(job_lines) |-> At(job_lines[j], 0)])
DeclaredMaxTasks(job_lines) == MaxSeq([j \in 1..Len(job_lines) |-> At(job_lines[j], 0)])

NoInstance == [J |-> 0, M |-> 0, T |-> 0, max_tasks |-> 0]
NoData == [status |-> "none", inst |-> NoInstance]
Raised(error) == [status |-> error, inst |-> NoInstance]

\* FJSData.__init__ (data.py 453-527). garbage fills the rows of
\* usable_machines_matrix the loop never writes (np.empty).
FJSDataInit(file, garbage) ==
    LET first_line == DropLast(file.first)
        J == At(first_line, 0)
        M == At(first_line, 1)
        T == DeclaredTasks(file.jobs)
        max_tasks == DeclaredMaxTasks(file.jobs)
        ops == FileOps(file.jobs)
        IndexError ==
            \E o \in 1..Len(ops) :
                \/ ~ops[o].block.complete
                \/ ops[o].task_index >= T
                \/ ops[o].job_id >= J
                \/ ops[o].task_id >= max_tasks
                \/ \E k \in 1..Len(ops[o].block.machines) :
                      ~InBounds(ops[o].block.machines[k], M)
        OpAt(t) == ops[t + 1]
        proc(t, m) ==
            IF t >= Len(ops) THEN Float(-1)
            ELSE LET b == OpAt(t).block
                     hits == {k \in 1..Len(b.machines) : NpIndex(b.machines[k], M) = m}
                 IN  IF hits = {} THEN Float(-1)
                     ELSE Float(b.runtimes[CHOOSE k \in hits : \A h \in hits : h <= k])
        index(j, k) ==
            LET hits == {o \in 1..Len(ops) : ops[o].job_id = j /\ ops[o].task_id = k}
            IN  IF hits = {} THEN -1
                ELSE ops[CHOOSE o \in hits : \A h \in hits : h <= o].task_index
    IN  IF IndexError THEN Raised("IndexError")
        ELSE [status |-> "ok",
              inst |->
                [J |-> J, M |-> M, T |-> T, max_tasks |-> max_tasks,
                 task_processing_times_matrix |->
                    [t \in 0..(T - 1) |-> [m \in 0..(M - 1) |-> proc(t, m)]],
                 sequence_dependency_matrix |->
                    [a \in 0..(T - 1) |-> [b \in 0..(T - 1) |-> 0]],
                 usable_machines_matrix |->
                    [t \in 0..(T - 1) |->
                        IF t < Len(ops) THEN Resize(OpAt(t).block.machines, M)
                        ELSE [m \in 0..(M - 1) |-> garbage]],
                 job_task_index_matrix |->
                    [j \in 0..(J - 1) |-> [k \in 0..(max_tasks - 1) |-> index(j, k)]],
                 tasks |->
                    [o \in 1..Len(ops) |->
                        [job_id |-> ops[o].job_id, task_id |-> ops[o].task_id,
                         sequence |-> ops[o].sequence,
                         usable_machines |-> ops[o].block.machines,
                         pieces |-> -1]]]]

\* The three csv files of a directory, each a sequence of lines; an absent
\* file has no line.
NoCsv == [jobTasks |-> <<>>, machineRunSpeed |-> <<>>, sequenceDependencyMatrix |-> <<>>]
NoFjs == [first |-> <<>>, jobs |-> <<>>]
JobTasksHeader == <<"Job", "Task", "Sequence", "Usable_Machines", "Pieces">>
MachineRunSpeedHeader == <<"Machine", "RunSpeed">>

\* Data.convert_fjs_to_csv (data.py 231-298): the files it leaves in
\* output_dir and how it ended.
ConvertFjsToCsv(file) ==
    LET line == DropLast(file.first)
        total_num_machines == At(line, 1)
        total_num_tasks == DeclaredTasks(file.jobs)
        ops == FileOps(file.jobs)
        Fails(o) == ~ops[o].block.has_machines \/ ~ops[o].block.has_pieces
        written == IF \E o \in 1..Len(ops) : Fails(o)
                      THEN (CHOOSE o \in 1..Len(ops) :
                               Fails(o) /\ \A h \in 1..(o - 1) : ~Fails(h)) - 1
                      ELSE Len(ops)
        rows == [o \in 1..written |->
                    <<ops[o].job_id, ops[o].task_id, ops[o].sequence,
                      FormatUsable(ops[o].block.machines), ops[o].block.pieces>>]
        zeros == [b \in 1..(total_num_tasks + 1) |-> 0]
    IN  IF written < Len(ops)
           THEN [status |-> "IndexError",
                 files |-> [NoCsv EXCEPT !.jobTasks = <<JobTasksHeader>> \o rows]]
           ELSE [status |-> "done",
                 files |->
                   [jobTasks |-> <<JobTasksHeader>> \o rows,
                    machineRunSpeed |->
                        <<MachineRunSpeedHeader>>
                            \o [i \in 1..total_num_machines |-> <<i - 1, 1>>],
                    sequenceDependencyMatrix |->
                        [a \in 1..(total_num_tasks + 1) |-> zeros]]]

\* CSVData._read_job_tasks_file (data.py 381-404), from the row at hand on.
RECURSIVE ReadJobTasks(_, _, _)
ReadJobTasks(rows, jobs, prev_job_id) ==
    IF rows = <<>> THEN [error |-> "none", jobs |-> jobs]
    ELSE IF ~UsableParses(rows[1][4]) THEN [error |-> "ValueError", jobs |-> jobs]
    ELSE LET task == [job_id |-> rows[1][1], task_id |-> rows[1][2],
                      sequence |-> rows[1][3],
                      usable_machines |-> ParseUsable(rows[1][4]),
                      pieces |-> rows[1][5]]
             appended == IF task.job_id # prev_job_id
                            THEN Append(jobs, [job_id |-> task.job_id,
                                               max_sequence |-> 0, tasks |-> <<>>])
                            ELSE jobs
         IN  IF ~InBounds(task.job_id, Len(appended))
                THEN [error |-> "IndexError", jobs |-> appended]
                ELSE LET at == NpIndex(task.job_id, Len(appended)) + 1
                     IN  ReadJobTasks(Tail(rows),
                            [appended EXCEPT
                                ![at].max_sequence =
                                    IF task.sequence > @ THEN task.sequence ELSE @,
                                ![at].tasks = Append(@, task)],
                            task.job_id)

\* The tasks of the jobs in the order of the loop of data.py 351-367, with
\* the task_index the loop holds at each.
JobOps(jobs) ==
    LET offset(j) == SumSeq([x \in 1..(j - 1) |-> Len(jobs[x].tasks)])
    IN  Flatten([j \in 1..Len(jobs) |->
                    [b \in 1..Len(jobs[j].tasks) |->
                        [job_id |-> jobs[j].job_id,
                         task_index |-> offset(j) + b - 1,
                         task |-> jobs[j].tasks[b]]]])

\* CSVData.__init__ (data.py 317-367).
CSVDataInit(files, garbage) ==
    LET read == ReadJobTasks(DropFirst(files.jobTasks), <<>>, -1)
        jobs == read.jobs
        matrix_rows == DropFirst(files.sequenceDependencyMatrix)
        machine_speeds == [i \in 1..(Len(files.machineRunSpeed) - 1) |->
                              At(files.machineRunSpeed, i)[2]]
        J == Len(jobs)
        T == Len(matrix_rows)
        max_tasks == MaxSeq([j \in 1..J |-> Len(jobs[j].tasks)])
        M == Len(machine_speeds)
        ops == JobOps(jobs)
        OpAt(t) == ops[t + 1]
        IndexError ==
            \E o \in 1..Len(ops) :
                \/ ~InBounds(ops[o].job_id, J)
                \/ ~InBounds(ops[o].task.task_id, max_tasks)
                \/ ops[o].task_index >= T
                \/ \E k \in 1..Len(ops[o].task.usable_machines) :
                      ~InBounds(ops[o].task.usable_machines[k], M)
        proc(t, m) ==
            IF t >= Len(ops) THEN Float(-1)
            ELSE LET task == OpAt(t).task
                     hits == {k \in 1..Len(task.usable_machines) :
                                 NpIndex(task.usable_machines[k], M) = m}
                 IN  IF hits = {} THEN Float(-1)
                     ELSE Divide(task.pieces, At(machine_speeds, m))
        index(j, k) ==
            LET hits == {o \in 1..Len(ops) :
                            /\ NpIndex(ops[o].job_id, J) = j
                            /\ NpIndex(ops[o].task.task_id, max_tasks) = k}
            IN  IF hits = {} THEN -1
                ELSE ops[CHOOSE o \in hits : \A h \in hits : h <= o].task_index
    IN  IF files.jobTasks = <<>> THEN Raised("FileNotFoundError")
        ELSE IF read.error # "none" THEN Raised(read.error)
        ELSE IF files.sequenceDependencyMatrix = <<>> \/ files.machineRunSpeed = <<>>
            THEN Raised("FileNotFoundError")
        ELSE IF J = 0 THEN Raised("ValueError")
        ELSE IF IndexError THEN Raised("IndexError")
        ELSE [status |-> "ok",
              inst |->
                [J |-> J, M |-> M, T |-> T, max_tasks |-> max_tasks,
                 task_processing_times_matrix |->
                    [t \in 0..(T - 1) |-> [m \in 0..(M - 1) |-> proc(t, m)]],
                 sequence_dependency_matrix |->
                    [a \in 0..(T - 1) |->
                        [b \in 0..(Len(At(matrix_rows, a)) - 2) |->
                            At(DropFirst(At(matrix_rows, a)), b)]],
                 usable_machines_matrix |->
                    [t \in 0..(T - 1) |->
                        IF t < Len(ops) THEN Resize(OpAt(t).task.usable_machines, M)
                        ELSE [m \in 0..(M - 1) |-> garbage]],
                 job_task_index_matrix |->
                    [j \in 0..(J - 1) |-> [k \in 0..(max_tasks - 1) |-> index(j, k)]],
                 tasks |-> [o \in 1..Len(ops) |-> ops[o].task]]]

\* min(a, b, c, d)
Min4(a, b, c, d) == CHOOSE x \in {a, b, c, d} : \A y \in {a, b, c, d} : x <= y

\* Data.get_setup_time (data.py 140-165).
GetSetupTime(inst, job1_id, job1_task_id, job2_id, job2_task_id) ==
    IF Min4(job1_id, job1_task_id, job2_id, job2_task_id) < 0
        THEN [status |-> "ok", value |-> 0]
    ELSE IF \/ ~InBounds(job1_id, inst.J) \/ ~InBounds(job1_task_id, inst.max_tasks)
            \/ ~InBounds(job2_id, inst.J) \/ ~InBounds(job2_task_id, inst.max_tasks)
        THEN [status |-> "IndexError", value |-> 0]
    ELSE LET a == inst.job_task_index_matrix[job1_id][job1_task_id]
             b == inst.job_task_index_matrix[job2_id][job2_task_id]
             rows == inst.T
             columns == IF rows = 0 THEN 0
                        ELSE Cardinality(DOMAIN inst.sequence_dependency_matrix[0])
         IN  IF ~InBounds(a, rows) \/ ~InBounds(b, columns)
                THEN [status |-> "IndexError", value |-> 0]
                ELSE [status |-> "ok",
                      value |-> inst.sequence_dependency_matrix
                                    [NpIndex(a, rows)][NpIndex(b, columns)]]

NoQuery == [args |-> <<>>, status |-> "none", value |-> 0]

DataIdle ==
    /\ fjs_file = NoFjs
    /\ csv_files = NoCsv
    /\ fjs_data = NoData
    /\ csv_data = NoData
    /\ convert_status = "none"
    /\ setup_query = NoQuery

\* ---- the input files the intake model draws from ----

\* Processing times and pieces: a negative one and the positive ones.
Times == {-1} \cup 1..MaxProcTime

\* The job shapes: the number of task blocks of each job line.
Shapes(max_ops) ==
    {sh \in SeqsUpTo(1..MaxTasks, MaxJobs) : sh # <<>> /\ SumSeq(sh) <= max_ops}

\* Strictly ascending lists of machine ids lo..hi, the empty list included.
MachineLists(lo, hi) ==
    {ms \in SeqsUpTo(lo..hi, hi - lo + 1) :
        \A i \in 1..Len(ms), j \in 1..Len(ms) : i < j => ms[i] < ms[j]}

\* A task block of an fjs line: u, then u pairs (machine, time).
Block(ms, ts) == <<Len(ms)>> \o Flatten([k \in 1..Len(ms) |-> <<ms[k], ts[k]>>])
FjsBlocks ==
    {Block(ms, ts) : <<ms, ts>> \in
        {p \in MachineLists(1, MaxMachines) \X SeqsUpTo(Times, MaxMachines) :
            Len(p[1]) = Len(p[2])}}

\* The lines of the jobs of shape sh, with declared task counts dn and the
\* blocks bl in file order.
ShapeLines(sh, dn, bl) ==
    [j \in 1..Len(sh) |->
        <<dn[j]>> \o Flatten([b \in 1..sh[j] |->
                                 bl[SumSeq(SubSeq(sh, 1, j - 1)) + b]])]

\* The fjs files of at most max_ops task blocks, with any declared counts.
FjsFiles(max_ops) ==
    UNION {
        {[first |-> <<J, MaxMachines, 1>>, jobs |-> ShapeLines(sh, dn, bl)] :
            J \in 1..MaxJobs,
            dn \in [1..Len(sh) -> 1..MaxTasks],
            bl \in [1..SumSeq(sh) -> FjsBlocks]}
        : sh \in Shapes(max_ops)}

\* The rows of a jobTasks.csv of shape sh with fields fl = <<usable, pieces>>.
ShapeRows(sh, fl) ==
    Flatten([j \in 1..Len(sh) |->
                [b \in 1..sh[j] |->
                    <<j - 1, b - 1, b - 1,
                      fl[SumSeq(SubSeq(sh, 1, j - 1)) + b][1],
                      fl[SumSeq(SubSeq(sh, 1, j - 1)) + b][2]>>]])

\* Usable_Machines fields: "[]" and the lists of machines.
UsableTexts ==
    {<<"[", "]">>} \cup
    {FormatUsable(ms) : ms \in MachineLists(0, MaxMachines - 1) \ {<<>>}}

\* A sequenceDependencyMatrix.csv: a header line, then one line per
\* operation, an index column first.
MatrixFile(setup) ==
    <<[b \in 1..(Len(setup) + 1) |-> 0]>>
        \o [a \in 1..Len(setup) |-> <<a - 1>> \o setup[a]]
ZeroMatrix(d) == [a \in 1..d |-> [b \in 1..d |-> 0]]

SpeedFile(speeds) ==
    <<MachineRunSpeedHeader>> \o [i \in 1..Len(speeds) |-> <<i - 1, speeds[i]>>]

\* Csv triples a caller may hand to CSVData: any usable field and pieces, any
\* speeds, a zero setup matrix of any dimension.
CallerCsvFiles(max_ops) ==
    UNION {
        {[jobTasks |-> <<JobTasksHeader>> \o ShapeRows(sh, fl),
          machineRunSpeed |-> SpeedFile(speeds),
          sequenceDependencyMatrix |-> MatrixFile(ZeroMatrix(d))] :
            fl \in [1..SumSeq(sh) -> UsableTexts \X Times],
            speeds \in [1..MaxMachines -> 1..MaxSpeed],
            d \in 1..MaxDim}
        : sh \in Shapes(max_ops)}

\* Well-formed csv triples with every setup matrix over 0..MaxSetup: one
\* machine, every operation usable on it.
SetupCsvFiles(max_ops) ==
    UNION {
        {[jobTasks |-> <<JobTasksHeader>>
                         \o ShapeRows(sh, [o \in 1..SumSeq(sh) |-> <<FormatUsable(<<0>>), 1>>]),
          machineRunSpeed |-> SpeedFile(<<1>>),
          sequenceDependencyMatrix |-> MatrixFile(setup)] :
            setup \in [1..SumSeq(sh) -> [1..SumSeq(sh) -> 0..MaxSetup]]}
        : sh \in Shapes(max_ops)}

\* ---- the operations on instance data ----

\* data = FJSData(fjs_file)
FJSIntake ==
    /\ fjs_file # NoFjs
    /\ fjs_data.status = "none"
    /\ \E garbage \in 0..1 : fjs_data' = FJSDataInit(fjs_file, garbage)
    /\ UNCHANGED <<fjs_file, csv_files, csv_data, convert_status, setup_query>>
    /\ UNCHANGED <<solver_vars, core_vars>>

\* Data.convert_fjs_to_csv(fjs_file, output_dir)
Convert ==
    /\ fjs_file # NoFjs
    /\ convert_status = "none"
    /\ csv_files' = ConvertFjsToCsv(fjs_file).files
    /\ convert_status' = ConvertFjsToCsv(fjs_file).status
    /\ UNCHANGED <<fjs_file, fjs_data, csv_data, setup_query>>
    /\ UNCHANGED <<solver_vars, core_vars>>

\* data = CSVData(sequenceDependencyMatrix.csv, machineRunSpeed.csv, jobTasks.csv)
CSVIntake ==
    /\ csv_files # NoCsv
    /\ csv_data.status = "none"
    /\ \E garbage \in 0..1 : csv_data' = CSVDataInit(csv_files, garbage)
    /\ UNCHANGED <<fjs_file, csv_files, fjs_data, convert_status, setup_query>>
    /\ UNCHANGED <<solver_vars, core_vars>>

\* data.get_setup_time(job1_id, job1_task_id, job2_id, job2_task_id); the
\* lookup changes nothing, so one lookup per behaviour reaches every result.
SetupTimeQuery ==
    /\ csv_data.status = "ok"
    /\ setup_query = NoQuery
    /\ \E job1_id \in -1..(csv_data.inst.J - 1),
          job1_task_id \in -1..(csv_data.inst.max_tasks - 1),
          job2_id \in -1..(csv_data.inst.J - 1),
          job2_task_id \in -1..(csv_data.inst.max_tasks - 1) :
         LET r == GetSetupTime(csv_data.inst, job1_id, job1_task_id, job2_id, job2_task_id)
         IN  setup_query' = [args |-> <<job1_id, job1_task_id, job2_id, job2_task_id>>,
                             status |-> r.status, value |-> r.value]
    /\ UNCHANGED <<fjs_file, csv_files, fjs_data, csv_data, convert_status>>
    /\ UNCHANGED <<solver_vars, core_vars>>

----------------------------------------------------------------------------
\* The search core: Solution, neighbor moves, crossover.

\* Bounds of the search-core model.
MaxSearchJobs == 2      \* jobs of an instance the search runs on
MaxSearchTasks == 2     \* tasks of one of its jobs
MaxSearchOps == 3       \* operations of the whole instance
MaxSearchMachines == 2  \* its machines

\* The job shapes of the instances the search runs on.
SearchShapes(max_ops) ==
    {sh \in SeqsUpTo(1..MaxSearchTasks, MaxSearchJobs) :
        sh # <<>> /\ SumSeq(sh) <= max_ops}

\* The task blocks with at least one usable machine and times among times.
SearchBlocks(times) ==
    {Block(ms, ts) : <<ms, ts>> \in
        {p \in (MachineLists(1, MaxSearchMachines) \ {<<>>})
                  \X SeqsUpTo(times, MaxSearchMachines) :
            Len(p[1]) = Len(p[2])}}

\* The fjs files whose J and n_k are the true counts.
SearchFiles(times, max_ops) ==
    UNION {
        {[first |-> <<Len(sh), MaxSearchMachines, 1>>, jobs |-> ShapeLines(sh, sh, bl)] :
            bl \in [1..SumSeq(sh) -> SearchBlocks(times)]}
        : sh \in SearchShapes(max_ops)}

\* The Instances FJSData builds from them.
SearchInstances(times, max_ops) ==
    {FJSDataInit(f, 0).inst : f \in SearchFiles(times, max_ops)}

\* usable[index_of[job_id, task_id]] as a set.
Usable(inst, job_id, task_id) ==
    UNION {{inst.tasks[o].usable_machines[k] : k \in 1..Len(inst.tasks[o].usable_machines)} :
            o \in {o \in 1..Len(inst.tasks) :
                      inst.tasks[o].job_id = job_id /\ inst.tasks[o].task_id = task_id}}

\* The Operation records of an Instance: (job_id, task_id, sequence, machine).
Operations(inst) ==
    UNION {{[job_id |-> inst.tasks[o].job_id, task_id |-> inst.tasks[o].task_id,
             sequence |-> inst.tasks[o].sequence, machine |-> m] :
                m \in Usable(inst, inst.tasks[o].job_id, inst.tasks[o].task_id)} :
            o \in 1..Len(inst.tasks)}

\* Invariant (1): every (job, task) pair of the Instance appears exactly once.
EveryTaskOnce(inst, S) ==
    /\ Len(S) = Len(inst.tasks)
    /\ \A o \in 1..Len(inst.tasks) :
          Cardinality({i \in 1..Len(S) :
                          /\ S[i].job_id = inst.tasks[o].job_id
                          /\ S[i].task_id = inst.tasks[o].task_id
                          /\ S[i].sequence = inst.tasks[o].sequence}) = 1

\* Invariant (2): the tasks of each job appear in ascending sequence order.
JobOrderKept(S) ==
    \A i \in 1..Len(S), j \in 1..Len(S) :
        (i < j /\ S[i].job_id = S[j].job_id) => S[i].sequence < S[j].sequence

\* Invariant (3): every row's machine is usable for its operation.
MachinesUsable(inst, S) ==
    \A i \in 1..Len(S) : S[i].machine \in Usable(inst, S[i].job_id, S[i].task_id)

Feasible(inst, S) ==
    EveryTaskOnce(inst, S) /\ JobOrderKept(S) /\ MachinesUsable(inst, S)

\* Every Solution the random feasible generator can produce.
FeasibleRows(inst) ==
    {S \in [1..Len(inst.tasks) -> Operations(inst)] : Feasible(inst, S)}

\* Machine re-assignment of row r to machine m.
ChangeMachine(S, r, m) == [S EXCEPT ![r].machine = m]

\* The machines row r may be re-assigned to; none when it has one usable machine.
OtherMachines(inst, S, r) ==
    Usable(inst, S[r].job_id, S[r].task_id) \ {S[r].machine}

\* SwapAllowed as it would be without the test on the jobs of the two rows.
SwapAllowedAnyJob(S, i) == i + 1 <= Len(S)

\* Swap of the adjacent rows (i, i+1).
SwapRows(S, i) == [S EXCEPT ![i] = S[i + 1], ![i + 1] = S[i]]
SwapAllowed(S, i) == i + 1 <= Len(S) /\ S[i].job_id # S[i + 1].job_id

\* Crossover with cut point c: the rows of A at positions 0..c, then the rows
\* of B, left to right, whose (job, task) pair is not among them.
InRows(rows, row) ==
    \E i \in 1..Len(rows) :
        rows[i].job_id = row.job_id /\ rows[i].task_id = row.task_id
\* Crossover as a plain one-point crossover: the rows of B behind the cut.
CrossoverOnePoint(A, B, c) == SubSeq(A, 1, c + 1) \o SubSeq(B, c + 2, Len(B))
Crossover(A, B, c) ==
    LET head == SubSeq(A, 1, c + 1)
        Missing(row) == ~InRows(head, row)
    IN  head \o SelectSeq(B, Missing)

SearchIdle ==
    /\ instance = NoInstance
    /\ solution_a = <<>>
    /\ solution_b = <<>>
    /\ child = <<>>
    /\ last_move = "none"
    /\ makespan = <<>>

\* generate_neighbor: a machine re-assignment.
NeighborChangeMachine ==
    /\ child = <<>>
    /\ \E r \in 1..Len(solution_a) :
         \E m \in OtherMachines(instance, solution_a, r) :
            solution_a' = ChangeMachine(solution_a, r, m)
    /\ last_move' = "change machine"
    /\ UNCHANGED <<instance, solution_b, child, makespan>>
    /\ UNCHANGED <<solver_vars, data_vars, worker_vars, ga_vars>>

\* generate_neighbor: a swap of adjacent rows of different jobs.
NeighborSwap ==
    /\ child = <<>>
    /\ \E i \in 1..Len(solution_a) :
         /\ SwapAllowed(solution_a, i)
         /\ solution_a' = SwapRows(solution_a, i)
    /\ last_move' = "swap"
    /\ UNCHANGED <<instance, solution_b, child, makespan>>
    /\ UNCHANGED <<solver_vars, data_vars, worker_vars, ga_vars>>

\* The crossover of the parents solution_a and solution_b.
CrossoverParents ==
    /\ child = <<>>
    /\ \E c \in 1..(Len(solution_a) - 1) :
         child' = Crossover(solution_a, solution_b, c)
    /\ UNCHANGED <<instance, solution_a, solution_b, last_move, makespan>>
    /\ UNCHANGED <<solver_vars, data_vars, worker_vars, ga_vars>>

\* ---- the makespan evaluator ----

MaxEvalOps == 2         \* operations of the instances the evaluator is run on

\* Data.get_runtime (data.py 167-183).
GetRuntime(inst, job_id, task_id, machine) ==
    LET t == inst.job_task_index_matrix[NpIndex(job_id, inst.J)]
                                       [NpIndex(task_id, inst.max_tasks)]
    IN  inst.task_processing_times_matrix[NpIndex(t, inst.T)][NpIndex(machine, inst.M)]

\* Float addition and comparison.
FAdd(x, y) == Divide(x[1] * y[2] + y[1] * x[2], x[2] * y[2])
FLess(x, y) == x[1] * y[2] < y[1] * x[2]
FMax(x, y) == IF FLess(x, y) THEN y ELSE x

\* start = ready_job: the start time as it would be if the evaluator did not
\* wait for the machine.
StartIgnoringMachine(ready_job, ready_mach, setup_time) == ready_job

\* start = max(ready_job[j], ready_mach[m] + setup_time)
Start(ready_job, ready_mach, setup_time) ==
    FMax(ready_job, FAdd(ready_mach, Float(setup_time)))

\* The state of the pass before the first row.
PassStart(inst) ==
    [ready_job |-> [j \in 0..(inst.J - 1) |-> Float(0)],
     ready_mach |-> [m \in 0..(inst.M - 1) |-> Float(0)],
     last_on_mach |-> [m \in 0..(inst.M - 1) |-> <<-1, -1>>]]

\* One row of the pass; the setup time of the row comes from get_setup_time,
\* with -1 for the ids of the predecessor of the first operation on a machine.
PassRow(inst, st, row) ==
    LET last == st.last_on_mach[row.machine]
        setup_time == GetSetupTime(inst, last[1], last[2], row.job_id, row.task_id).value
        start == Start(st.ready_job[row.job_id], st.ready_mach[row.machine], setup_time)
        finish == FAdd(start, GetRuntime(inst, row.job_id, row.task_id, row.machine))
    IN  [ready_job |-> [st.ready_job EXCEPT ![row.job_id] = finish],
         ready_mach |-> [st.ready_mach EXCEPT ![row.machine] = finish],
         last_on_mach |-> [st.last_on_mach EXCEPT ![row.machine] = <<row.job_id, row.task_id>>]]

\* The pass over the rows i.. of S.
RECURSIVE Pass(_, _, _, _)
Pass(inst, S, i, st) ==
    IF i > Len(S) THEN st ELSE Pass(inst, S, i + 1, PassRow(inst, st, S[i]))

\* The largest of the values of a function.
FMaxOf(f) == CHOOSE x \in {f[m] : m \in DOMAIN f} : \A m \in DOMAIN f : ~FLess(x, f[m])

\* Makespan = max over m of ready_mach[m].
Makespan(inst, S) == FMaxOf(Pass(inst, S, 1, PassStart(inst)).ready_mach)

\* Two single-operation jobs a and b on one machine, proc_time 1 each,
\* setup[a, b] = 100: the csv triple and its Instance.
SetupDominatesFiles ==
    [jobTasks |-> <<JobTasksHeader>>
                     \o ShapeRows(<<1, 1>>, [o \in 1..2 |-> <<FormatUsable(<<0>>), 1>>]),
     machineRunSpeed |-> SpeedFile(<<1>>),
     sequenceDependencyMatrix |-> MatrixFile(<<<<0, 100>>, <<0, 0>>>>)]
SetupDominates == CSVDataInit(SetupDominatesFiles, 0).inst

\* Jobs A = [a1 on machine 0 for 3, a2 on machine 1 for 4] and
\* B = [b1 on machine 1 for 2, b2 on machine 0 for 5]: the fjs file and its
\* Instance.
TwoJobsTwoMachinesFile ==
    [first |-> <<2, 2, 1>>,
     jobs |-> <<<<2, 1, 1, 3, 1, 2, 4>>, <<2, 1, 2, 2, 1, 1, 5>>>>]
TwoJobsTwoMachines == FJSDataInit(TwoJobsTwoMachinesFile, 0).inst

\* The Instances the evaluator is run on: the two above, the Instances of fjs
\* files with any times, and of csv triples with setup times.
EvalInstances(max_ops) ==
    {SetupDominates, TwoJobsTwoMachines}
        \cup SearchInstances(Times, max_ops)
        \cup {CSVDataInit(f, 0).inst : f \in SetupCsvFiles(max_ops)}

\* The evaluator is run on solution_a.
Evaluate ==
    /\ instance # NoInstance
    /\ makespan = <<>>
    /\ makespan' = <<Makespan(instance, solution_a)>>
    /\ UNCHANGED <<instance, solution_a, solution_b, child, last_move>>
    /\ UNCHANGED <<solver_vars, data_vars, worker_vars, ga_vars>>

\* ---- the tabu-search worker ----

\* Bounds of the worker model.
MaxIterations == 3          \* the stopping condition, in iterations
MaxTabuSize == 2            \* tabu_list_size ranges over 1..MaxTabuSize
MaxResetThreshold == 2      \* reset_threshold ranges over 1..MaxResetThreshold
MaxNeighborhoodSize == 2    \* neighborhood_size ranges over 1..MaxNeighborhoodSize

\* A job of two tasks the first of which may run on either machine, and a
\* job of one task that may run on either machine.
FlexibleFile ==
    [first |-> <<2, 2, 1>>,
     jobs |-> <<<<2, 2, 1, 1, 2, 2, 1, 1, 2>>, <<1, 2, 1, 2, 2, 1>>>>]

\* The Instances the worker is run on.
WorkerInstances ==
    {SetupDominates, TwoJobsTwoMachines, FJSDataInit(FlexibleFile, 0).inst}

\* The state key of a Solution: its (job, task, machine) triples.
Key(S) == [i \in 1..Len(S) |-> <<S[i].job_id, S[i].task_id, S[i].machine>>]

\* The neighbors of S in the order a generator proposes them: the swaps of
\* adjacent rows, then the machine re-assignments.
Proposals(inst, S) ==
    LET Ok(i) == SwapAllowed(S, i)
        swaps == SelectSeq([i \in 1..(Len(S) - 1) |-> i], Ok)
        Other(r) ==
            LET In(m) == m \in OtherMachines(inst, S, r)
            IN  SelectSeq([m \in 1..inst.M |-> m - 1], In)
    IN  [k \in 1..Len(swaps) |-> SwapRows(S, swaps[k])]
            \o Flatten([r \in 1..Len(S) |->
                          [k \in 1..Len(Other(r)) |-> ChangeMachine(S, r, Other(r)[k])]])

Reverse(seq) == [i \in 1..Len(seq) |-> seq[Len(seq) + 1 - i]]

\* The proposals of the worker's random number generator, which its seed
\* determines.
Stream(rng, inst, S) ==
    IF rng = 0 THEN Proposals(inst, S) ELSE Reverse(Proposals(inst, S))

\* The neighbors of batch, by the indices in among, that have the minimum
\* makespan; the first of them is the one picked.
PickMin(inst, batch, among) ==
    CHOOSE i \in among :
        \A j \in among :
            /\ ~FLess(Makespan(inst, batch[j]), Makespan(inst, batch[i]))
            /\ Makespan(inst, batch[j]) = Makespan(inst, batch[i]) => i <= j

\* push a key into the tabu list with no eviction
PushWithoutEviction(tabu, key, L) == Append(tabu, key)

\* push a key into the tabu list, evicting the oldest beyond L
Push(tabu, key, L) ==
    IF Len(tabu) + 1 > L
        THEN SubSeq(Append(tabu, key), Len(tabu) + 2 - L, Len(tabu) + 1)
        ELSE Append(tabu, key)

\* best <- current whatever its makespan
BestIsCurrent(inst, best, current) == current

\* if current.makespan < best.makespan then best <- current
BestAfter(inst, best, current) ==
    IF FLess(Makespan(inst, current), Makespan(inst, best)) THEN current ELSE best

\* A worker at the start of a run.
StartedWorker(seed, rng, L, R, N, run, first_best) ==
    [state |-> "running", seed |-> seed, rng |-> rng,
     tabu_list_size |-> L, reset_threshold |-> R, neighborhood_size |-> N,
     current |-> seed, best |-> seed, tabu |-> <<>>, since_improve |-> 0,
     iteration |-> 0, moves |-> <<>>, last |-> "none",
     run |-> run, first_best |-> first_best]

\* One iteration with a neighborhood of n neighbors, as many as the timed
\* generation produced before its deadline.
Iteration(inst, w, n) ==
    LET batch == SubSeq(Stream(w.rng, inst, w.current), 1, n)
        tabu_keys == {w.tabu[i] : i \in 1..Len(w.tabu)}
        forced == w.since_improve >= w.reset_threshold
        among ==
            IF forced THEN 1..Len(batch)
            ELSE {i \in 1..Len(batch) :
                    \/ Key(batch[i]) \notin tabu_keys
                    \/ FLess(Makespan(inst, batch[i]), Makespan(inst, w.best))}
        chosen == batch[PickMin(inst, batch, among)]
        improved == FLess(Makespan(inst, chosen), Makespan(inst, w.best))
    IN  IF among = {}
        THEN [w EXCEPT !.iteration = @ + 1,
                       !.since_improve = IF forced THEN @ ELSE @ + 1,
                       !.last = "empty"]
        ELSE [w EXCEPT !.iteration = @ + 1,
                       !.current = chosen,
                       !.tabu = Push(@, Key(chosen), w.tabu_list_size),
                       !.moves = Append(@, Key(chosen)),
                       !.best = BestAfter(inst, @, chosen),
                       !.since_improve = IF forced \/ improved THEN 0 ELSE @ + 1,
                       !.last = IF forced THEN "forced"
                                ELSE IF improved THEN "improved"
                                ELSE IF Key(chosen) \in tabu_keys THEN "aspiration"
                                ELSE "accepted"]

\* An iteration of the worker.
WorkerIterate ==
    /\ worker # <<>>
    /\ worker.state = "running"
    /\ worker.iteration < MaxIterations
    /\ \E n \in 0..worker.neighborhood_size :
         /\ n <= Len(Stream(worker.rng, instance, worker.current))
         /\ worker' = Iteration(instance, worker, n)
    /\ UNCHANGED <<solver_vars, data_vars, search_vars, ga_vars>>

\* The stopping condition is met: the worker emits its best Solution.
WorkerStop ==
    /\ worker # <<>>
    /\ worker.state = "running"
    /\ worker.iteration >= MaxIterations
    /\ worker' = [worker EXCEPT !.state = "done"]
    /\ UNCHANGED <<solver_vars, data_vars, search_vars, ga_vars>>

\* The second run: the same worker with the same initial Solution, the same
\* seed and the same parameters; the best makespan of the first run is kept
\* for the comparison.
WorkerRunAgain ==
    /\ worker # <<>>
    /\ worker.state = "done"
    /\ worker.run = 1
    /\ worker' = StartedWorker(worker.seed, worker.rng, worker.tabu_list_size,
                               worker.reset_threshold, worker.neighborhood_size,
                               2, <<Makespan(instance, worker.best)>>)
    /\ UNCHANGED <<solver_vars, data_vars, search_vars, ga_vars>>

\* ---- the genetic algorithm ----

\* Bounds of the GA model.
MaxPopulationSize == 2      \* population_size ranges over 1..MaxPopulationSize
MaxPopulation == 2          \* length of a caller's population
MaxGAIterations == 2        \* the stopping condition, in iterations

\* The arguments a caller may pass to genetic_algorithm_iter;
\* population=None is given = FALSE.
GACallArgs ==
    {a \in [iterations : 1..MaxGAIterations, given : BOOLEAN,
            population : SeqsUpTo(FeasibleSolutions, MaxPopulation),
            population_size : 1..MaxPopulationSize, benchmark : BOOLEAN] :
        ~a.given => a.population = <<>>}

\* ga_parameters['population'] (solver.py 295-298); pad is what
\* generate_feasible_solution returned.
GAPopulation(population_size, given, population, pad) ==
    IF given THEN population \o pad ELSE pad
GAPadCount(population_size, given, population) ==
    IF given THEN Max0(population_size - Len(population)) ELSE population_size

\* The first individual with the largest makespan.
Worst(population) ==
    CHOOSE i \in 1..Len(population) :
        /\ \A j \in 1..Len(population) : population[j].makespan <= population[i].makespan
        /\ \A j \in 1..(i - 1) : population[j].makespan < population[i].makespan

\* The generational step as full replacement of the worst individual.
ReplaceWorstAlways(population, new_child) ==
    [population EXCEPT ![Worst(population)] = new_child]

\* The generational step: the child replaces the worst-makespan individual
\* if its makespan is strictly better.
ReplaceWorst(population, new_child) ==
    IF new_child.makespan < population[Worst(population)].makespan
        THEN [population EXCEPT ![Worst(population)] = new_child]
        ELSE population

\* _genetic_algorithm up to the call of the engine (solver.py 289-314).
GeneticAlgorithmStart ==
    /\ ga_pc = "idle"
    /\ \E a \in GACallArgs :
         \E pad \in [1..GAPadCount(a.population_size, a.given, a.population)
                        -> FeasibleSolutions] :
            LET population == GAPopulation(a.population_size, a.given, a.population, pad)
            IN  /\ ga_parameters' = [stopping_condition |-> a.iterations,
                                     population_size |-> a.population_size,
                                     population |-> population,
                                     benchmark |-> a.benchmark]
                /\ ga_result_population' = population
    /\ ga_pc' = "searching"
    /\ ga_step' = [iteration |-> 0, engines |-> 1, before |-> <<>>, child |-> <<>>]
    /\ UNCHANGED ga_best_solution
    /\ UNCHANGED <<solver_vars, data_vars, search_vars, worker_vars>>

\* One iteration of the engine: a child, made by selection, crossover and
\* mutation, and the generational step with it.
GeneticAlgorithmStep ==
    /\ ga_pc = "searching"
    /\ ga_step.iteration < ga_parameters.stopping_condition
    /\ \E new_child \in FeasibleSolutions :
         /\ ga_result_population' = ReplaceWorst(ga_result_population, new_child)
         /\ ga_step' = [ga_step EXCEPT !.iteration = @ + 1,
                                       !.before = ga_result_population,
                                       !.child = <<new_child>>]
    /\ UNCHANGED <<ga_parameters, ga_best_solution, ga_pc>>
    /\ UNCHANGED <<solver_vars, data_vars, search_vars, worker_vars>>

\* The engine returns the best individual; _genetic_algorithm stores and
\* returns it (solver.py 317-327).
GeneticAlgorithmReturn ==
    /\ ga_pc = "searching"
    /\ ga_step.iteration >= ga_parameters.stopping_condition
    /\ ga_best_solution' = Min(ga_result_population)
    /\ ga_pc' = "returned"
    /\ UNCHANGED <<ga_parameters, ga_result_population, ga_step>>
    /\ UNCHANGED <<solver_vars, data_vars, search_vars, worker_vars>>

WorkerIdle == worker = <<>>

GAIdle ==
    /\ ga_parameters = <<>>
    /\ ga_result_population = <<>>
    /\ ga_best_solution = NoSolution
    /\ ga_pc = "idle"
    /\ ga_step = [iteration |-> 0, engines |-> 0, before |-> <<>>, child |-> <<>>]

CoreIdle == SearchIdle /\ WorkerIdle /\ GAIdle

Init == SolverInit /\ SessionIdle /\ DataIdle /\ CoreIdle

Worker ==
    \E i \in 1..(MaxProcesses + MaxInitial) : WorkerEmit(i) \/ WorkerFail(i)

Next ==
    \/ TabuSearchTypeError
    \/ TabuSearchStart
    \/ Worker
    \/ Join
    \/ CollectResult
    \/ CollectMissing
    \/ ReturnBest

Spec == Init /\ [][Next]_vars

\* The intakes and the conversion, on an fjs file or on a caller's csv triple.
InitData ==
    /\ SolverInit /\ SessionIdle
    /\ CoreIdle
    /\ \/ fjs_file \in FjsFiles(MaxOps) /\ csv_files = NoCsv
       \/ fjs_file = NoFjs /\ csv_files \in CallerCsvFiles(MaxOps)
    /\ fjs_data = NoData
    /\ csv_data = NoData
    /\ convert_status = "none"
    /\ setup_query = NoQuery

NextData ==
    \/ FJSIntake
    \/ Convert
    \/ CSVIntake

SpecData == InitData /\ [][NextData]_vars

\* Setup-time lookups on the instance of a well-formed csv triple.
InitSetup ==
    /\ SolverInit /\ SessionIdle
    /\ CoreIdle
    /\ fjs_file = NoFjs
    /\ csv_files \in SetupCsvFiles(MaxQueryOps)
    /\ fjs_data = NoData
    /\ csv_data = NoData
    /\ convert_status = "none"
    /\ setup_query = NoQuery

NextSetup ==
    \/ CSVIntake
    \/ SetupTimeQuery

SpecSetup == InitSetup /\ [][NextSetup]_vars

\* Neighbor moves and crossover on the feasible Solutions of an Instance.
InitMoves ==
    /\ SolverInit /\ SessionIdle /\ DataIdle /\ WorkerIdle /\ GAIdle
    /\ instance \in SearchInstances({1}, MaxSearchOps)
    /\ solution_a \in FeasibleRows(instance)
    /\ solution_b \in FeasibleRows(instance)
    /\ child = <<>>
    /\ last_move = "none"
    /\ makespan = <<>>

NextMoves ==
    \/ NeighborChangeMachine
    \/ NeighborSwap
    \/ CrossoverParents

SpecMoves == InitMoves /\ [][NextMoves]_vars

\* The evaluator on every feasible Solution of an Instance.
InitEval ==
    /\ SolverInit /\ SessionIdle /\ DataIdle /\ WorkerIdle /\ GAIdle
    /\ instance \in EvalInstances(MaxEvalOps)
    /\ solution_a \in FeasibleRows(instance)
    /\ solution_b = <<>>
    /\ child = <<>>
    /\ last_move = "none"
    /\ makespan = <<>>

NextEval == Evaluate

SpecEval == InitEval /\ [][NextEval]_vars

\* A tabu-search worker, run twice on the same inputs.
InitWorker ==
    /\ SolverInit /\ SessionIdle /\ DataIdle /\ GAIdle
    /\ instance \in WorkerInstances
    /\ solution_a = <<>>
    /\ solution_b = <<>>
    /\ child = <<>>
    /\ last_move = "none"
    /\ makespan = <<>>
    /\ \E seed \in FeasibleRows(instance), rng \in 0..1,
          L \in 1..MaxTabuSize, R \in 1..MaxResetThreshold,
          N \in 1..MaxNeighborhoodSize :
         worker = StartedWorker(seed, rng, L, R, N, 1, <<>>)

NextWorker ==
    \/ WorkerIterate
    \/ WorkerStop
    \/ WorkerRunAgain

SpecWorker == InitWorker /\ [][NextWorker]_vars

\* A genetic-algorithm call on a fresh Solver.
InitGA == SolverInit /\ SessionIdle /\ DataIdle /\ CoreIdle

NextGA ==
    \/ GeneticAlgorithmStart
    \/ GeneticAlgorithmStep
    \/ GeneticAlgorithmReturn

SpecGA == InitGA /\ [][NextGA]_vars

\* Calls with generated seeds, repeated on the same Solver object.
InitRepeat == SolverInit /\ SessionIdle /\ DataIdle /\ CoreIdle

NextRepeat ==
    \/ TabuSearchCall
    \/ \E i \in 1..MaxProcesses : WorkerEmit(i)
    \/ Join
    \/ CollectResult
    \/ ReturnBest

SpecRepeat == InitRepeat /\ [][NextRepeat]_vars

\* Two Solver objects whose calls run at the same time.
InitConcurrent ==
    /\ SolverInit /\ DataIdle /\ CoreIdle
    /\ calls = 0
    /\ solvers = <<IdleSolver, IdleSolver>>
    /\ ts_workers = NoWorkers

NextConcurrent ==
    \E s \in 1..2 :
        \/ ConcurrentStart(s)
        \/ \E i \in 1..MaxProcesses : ConcurrentEmit(s, i)
        \/ \E i \in 1..MaxProcesses : ConcurrentWriteFails(s, i)
        \/ ConcurrentJoin(s)
        \/ ConcurrentCollect(s)
        \/ ConcurrentMissing(s)
        \/ ConcurrentReturn(s)
        \/ ConcurrentRemoveMissing(s)

SpecConcurrent == InitConcurrent /\ [][NextConcurrent]_vars

\* A call with an iteration-count stopping condition, the worker processes
\* and the coordinator being scheduled fairly: a process that can take a step
\* is not left waiting forever.
InitLive ==
    /\ SolverInit /\ DataIdle /\ CoreIdle
    /\ calls = 0
    /\ solvers = <<>>
    /\ \E N \in 1..MaxStoppingCondition : ts_workers = WorkersAtStart(N)

NextLive ==
    \/ TabuSearchStart
    \/ \E i \in 1..(MaxProcesses + MaxInitial) : WorkerIteration(i)
    \/ \E i \in 1..(MaxProcesses + MaxInitial) : WorkerStops(i)
    \/ \E i \in 1..(MaxProcesses + MaxInitial) : WorkerFail(i)
    \/ Join
    \/ CollectResult
    \/ CollectMissing
    \/ ReturnBest

FairLive ==
    /\ \A i \in 1..(MaxProcesses + MaxInitial) :
          WF_vars(WorkerIteration(i)) /\ WF_vars(WorkerStops(i))
    /\ WF_vars(Join)
    /\ WF_vars(CollectResult)
    /\ WF_vars(ReturnBest)

SpecLive == InitLive /\ [][NextLive]_vars /\ FairLive

----------------------------------------------------------------------------
\* Claims about the tabu-search coordinator (specification Spec).

CallEnded == pc = "idle" /\ outcome # "none"
Launched == outcome \in {"running", "returned", "FileNotFoundError"}
Emitted(i) == processes[i].emitted # <<>>
InfeasibleSeedGiven ==
    /\ args.given
    /\ \E i \in 1..Len(args.initial_solutions) :
          /\ IsSolution(args.initial_solutions[i])
          /\ ~args.initial_solutions[i].feasible

\* C2: when the call returns, the returned Solution's makespan is at most the
\* makespan of the best Solution emitted by every worker the call launched.
C2_ReturnedIsMinOverLaunched ==
    outcome = "returned" =>
        \A i \in 1..Len(processes) :
            Emitted(i) => ts_best_solution.makespan <= processes[i].emitted[1].makespan

\* C3: exactly num_processes workers are launched, with ids 0..W-1, the
\* caller's Solutions first, random padding only when fewer than W were
\* supplied, and the result of every launched worker is collected.
C3_ExactlyWWorkers ==
    Launched =>
        /\ Len(processes) = args.num_processes
        /\ \A i \in 1..Len(processes) : processes[i].tabu_id = i - 1
        /\ \A i \in 1..Len(processes) :
              (args.given /\ i <= Len(args.initial_solutions))
                  => processes[i].seed = args.initial_solutions[i]
        /\ outcome = "returned" => Len(ts_all_solutions) = Len(processes)

\* C4: a call whose initial Solutions include an infeasible one fails before
\* any worker is launched.
C4_InfeasibleSeedRejected ==
    InfeasibleSeedGiven => (~Launched /\ processes = <<>>)

\* C5: when some workers fail and at least one succeeds, the call returns the
\* minimum-makespan Solution among the successful workers.
C5_WorkerFailuresIsolated ==
    (/\ CallEnded
     /\ Launched
     /\ \E i \in 1..Len(processes) : processes[i].state = "failed"
     /\ \E i \in 1..Len(processes) : processes[i].state = "done")
    => /\ outcome = "returned"
       /\ \A i \in 1..Len(processes) :
             Emitted(i) => ts_best_solution.makespan <= processes[i].emitted[1].makespan
       /\ \E i \in 1..Len(processes) :
             Emitted(i) /\ ts_best_solution = processes[i].emitted[1]

\* C6: a call that ends with an error leaves the persistent state as it was
\* before the call, and leaves no temporary directory behind.
C6_ErrorLeavesNoTrace ==
    outcome \in {"TypeError", "FileNotFoundError"} =>
        (Persistent = before /\ ~tmp_dir.exists)

----------------------------------------------------------------------------
\* Claims about the instance intake (specifications SpecData and SpecSetup).

FjsBlocksOf(file, j) == TaskBlocks(file.jobs[j], 1)
CsvRows(files) == DropFirst(files.jobTasks)

\* An fjs file is well formed when J and every n_k are the true counts, every
\* operation has a usable machine and no processing time is negative.
WellFormedFjs(file) ==
    /\ At(file.first, 0) = Len(file.jobs)
    /\ \A j \in 1..Len(file.jobs) :
          /\ At(file.jobs[j], 0) = Len(FjsBlocksOf(file, j))
          /\ \A b \in 1..Len(FjsBlocksOf(file, j)) :
                /\ FjsBlocksOf(file, j)[b].machines # <<>>
                /\ \A k \in 1..Len(FjsBlocksOf(file, j)[b].runtimes) :
                      FjsBlocksOf(file, j)[b].runtimes[k] >= 0

RoundTripDone ==
    /\ fjs_file # NoFjs
    /\ fjs_data.status # "none"
    /\ convert_status # "none"
    /\ csv_data.status # "none"

SameInstance(a, b) ==
    /\ a.J = b.J /\ a.M = b.M /\ a.T = b.T
    /\ Len(a.tasks) = Len(b.tasks)
    /\ \A o \in 1..Len(a.tasks) : a.tasks[o].usable_machines = b.tasks[o].usable_machines
    /\ a.usable_machines_matrix = b.usable_machines_matrix
    /\ a.task_processing_times_matrix = b.task_processing_times_matrix
    /\ \A x \in 0..(a.T - 1), y \in 0..(a.T - 1) :
          a.sequence_dependency_matrix[x][y] = 0 /\ b.sequence_dependency_matrix[x][y] = 0

\* C1: for every well-formed fjs file, convert_fjs_to_csv followed by CSVData
\* yields an Instance equal to the one FJSData builds, in J, M, T, the usable
\* machines and every proc_time[t, m], with a zero setup matrix in both.
C1_RoundTrip ==
    (RoundTripDone /\ WellFormedFjs(fjs_file)) =>
        /\ fjs_data.status = "ok"
        /\ convert_status = "done"
        /\ csv_data.status = "ok"
        /\ SameInstance(fjs_data.inst, csv_data.inst)

FjsInfeasible(file) ==
    \E j \in 1..Len(file.jobs) : \E b \in 1..Len(FjsBlocksOf(file, j)) :
        \/ FjsBlocksOf(file, j)[b].machines = <<>>
        \/ \E k \in 1..Len(FjsBlocksOf(file, j)[b].runtimes) :
              FjsBlocksOf(file, j)[b].runtimes[k] < 0

EmptyUsable(text) == Strip(DropLast(DropFirst(text))) = <<>>
CsvInfeasible(files) ==
    \E r \in 1..Len(CsvRows(files)) :
        \/ EmptyUsable(CsvRows(files)[r][4])
        \/ CsvRows(files)[r][5] < 0

\* C7: both intakes fail, and produce no Instance, when an operation has no
\* usable machine or a negative processing time on a usable machine.
C7_InfeasibleInstanceRejected ==
    /\ (fjs_data.status # "none" /\ FjsInfeasible(fjs_file)) => fjs_data.status # "ok"
    /\ (csv_data.status # "none" /\ CsvInfeasible(csv_files)) => csv_data.status # "ok"

FjsInconsistent(file) ==
    \/ At(file.first, 0) # Len(file.jobs)
    \/ \E j \in 1..Len(file.jobs) : At(file.jobs[j], 0) # Len(FjsBlocksOf(file, j))
CsvInconsistent(files) ==
    Len(CsvRows(files)) # Len(DropFirst(files.sequenceDependencyMatrix))

\* C8: intake raises whenever the task count is inconsistent: the task rows
\* of jobTasks.csv against the dimension of the setup matrix, a declared n_k
\* against the task blocks of its line, the declared J against the job lines.
C8_InconsistentTaskCountRejected ==
    /\ (fjs_data.status # "none" /\ FjsInconsistent(fjs_file)) => fjs_data.status # "ok"
    /\ (csv_data.status # "none" /\ CsvInconsistent(csv_files)) => csv_data.status # "ok"

QueryDone == setup_query.status # "none"
Idle(job_id, task_id) == job_id = -1 \/ task_id = -1
Absent(inst, job_id, task_id) ==
    ~Idle(job_id, task_id) /\ inst.job_task_index_matrix[job_id][task_id] = -1
Present(inst, job_id, task_id) ==
    ~Idle(job_id, task_id) /\ inst.job_task_index_matrix[job_id][task_id] # -1

\* C9: get_setup_time returns 0 when the predecessor (job1, task1) is the idle
\* marker -1 or absent from the Instance (index -1), and otherwise returns
\* setup[index_of[job1, task1], index_of[job2, task2]].
C9_SetupTimeOfAbsentPredecessor ==
    QueryDone =>
        LET inst == csv_data.inst
            q == setup_query.args
        IN  /\ (Idle(q[1], q[2]) \/ Absent(inst, q[1], q[2]))
                => (setup_query.status = "ok" /\ setup_query.value = 0)
            /\ (Present(inst, q[1], q[2]) /\ Present(inst, q[3], q[4]))
                => /\ setup_query.status = "ok"
                   /\ setup_query.value =
                        inst.sequence_dependency_matrix
                            [inst.job_task_index_matrix[q[1]][q[2]]]
                            [inst.job_task_index_matrix[q[3]][q[4]]]

UsableSet(inst, t) ==
    {NpIndex(At(inst.tasks, t).usable_machines[k], inst.M) :
        k \in 1..Len(At(inst.tasks, t).usable_machines)}
ProcTimeIffUsable(inst) ==
    \A t \in 0..(Len(inst.tasks) - 1) :
        UsableSet(inst, t) # {} =>
            \A m \in 0..(inst.M - 1) :
                NonNegative(inst.task_processing_times_matrix[t][m])
                    <=> m \in UsableSet(inst, t)

\* C10: after either intake completes, for every operation t with a usable
\* machine and every machine m, task_processing_times_matrix[t, m] >= 0 iff m
\* is a usable machine of t.
C10_ProcTimeIffUsable ==
    /\ fjs_data.status = "ok" => ProcTimeIffUsable(fjs_data.inst)
    /\ csv_data.status = "ok" => ProcTimeIffUsable(csv_data.inst)

\* ---- C11 ----

\* The slots of the temporary directory whose content a step changes.
WrittenSlots ==
    {f \in DOMAIN tmp_dir'.files :
        f \notin DOMAIN tmp_dir.files \/ tmp_dir'.files[f] # tmp_dir.files[f]}

\* The workers that end in a step.
EndingWorkers ==
    {i \in 1..Len(processes) :
        processes[i].state = "running" /\ processes'[i].state # "running"}

AllTerminated == \A i \in 1..Len(processes) : processes[i].state # "running"

\* C11: the coordinator reads no worker result and computes no minimum before
\* every launched worker process has terminated; a worker writes only the
\* slot solution<id> of its own id, and no two workers of a call have the
\* same id.
C11_JoinBeforeCollect ==
    /\ [](pc = "collecting" => AllTerminated)
    /\ [][(ts_all_solutions' # ts_all_solutions \/ ts_best_solution' # ts_best_solution)
            => AllTerminated]_vars
    /\ [][\A f \in WrittenSlots :
            \E i \in EndingWorkers : processes[i].tabu_id = f /\ EndingWorkers = {i}]_vars
    /\ [](\A i, j \in 1..Len(processes) :
            processes[i].tabu_id = processes[j].tabu_id => i = j)

\* Two workers were launched, both wrote their slot, and the coordinator has
\* read a result.
C11_Witness ==
    /\ pc = "collecting"
    /\ Len(processes) >= 2
    /\ \A i \in 1..Len(processes) : processes[i].tabu_id \in DOMAIN tmp_dir.files
    /\ Len(ts_all_solutions) >= 1

----------------------------------------------------------------------------
\* Claims about the search core (specifications SpecMoves, SpecEval,
\* SpecWorker, SpecGA).

\* C12: every neighbor move applied to a feasible Solution yields a feasible
\* Solution: after a machine re-assignment or a swap of adjacent rows of
\* different jobs, and after any sequence of them, every (job, task) pair
\* appears exactly once, the tasks of each job are in ascending sequence
\* order and every row's machine is usable for its operation.
C12_NeighborMovesKeepFeasible ==
    last_move # "none" =>
        /\ EveryTaskOnce(instance, solution_a)
        /\ JobOrderKept(solution_a)
        /\ MachinesUsable(instance, solution_a)

\* A swap was applied to a Solution of a job with two tasks and another job,
\* one of whose rows is not on the first usable machine of its operation.
C12_Witness ==
    /\ last_move = "swap"
    /\ Len(solution_a) = 3
    /\ \E i \in 1..Len(solution_a) :
          \E m \in Usable(instance, solution_a[i].job_id, solution_a[i].task_id) :
              m < solution_a[i].machine

Order(S) == [i \in 1..Len(S) |-> <<S[i].job_id, S[i].task_id>>]

Evaluated == makespan # <<>>

\* C14: for every feasible Solution the evaluator's makespan is the maximum
\* over machines of ready_mach after one in-order pass, with setup 0 for the
\* first operation on a machine; it is non-negative, and a second evaluation
\* gives the same value. For two single-operation jobs a and b on one machine
\* with proc_time 1 each and setup[a, b] = 100 it is 2 for S = [b, a] and 102
\* for S = [a, b].
C14_EvaluatorMakespan ==
    Evaluated =>
        /\ \E m \in 0..(instance.M - 1) :
              makespan[1] = Pass(instance, solution_a, 1, PassStart(instance)).ready_mach[m]
        /\ \A m \in 0..(instance.M - 1) :
              ~FLess(makespan[1], Pass(instance, solution_a, 1, PassStart(instance)).ready_mach[m])
        /\ NonNegative(makespan[1])
        /\ makespan[1] = Makespan(instance, solution_a)
        /\ (instance = SetupDominates /\ Order(solution_a) = <<<<1, 0>>, <<0, 0>>>>)
              => makespan[1] = Float(2)
        /\ (instance = SetupDominates /\ Order(solution_a) = <<<<0, 0>>, <<1, 0>>>>)
              => makespan[1] = Float(102)

\* C15: on the instance A = [a1 on machine 0 for 3, a2 on machine 1 for 4],
\* B = [b1 on machine 1 for 2, b2 on machine 0 for 5] with zero setup times
\* the minimum of the makespan over all feasible Solutions is 7.
C15_OptimumIsSeven ==
    (Evaluated /\ instance = TwoJobsTwoMachines) =>
        /\ ~FLess(makespan[1], Float(7))
        /\ \E S \in FeasibleRows(instance) : Makespan(instance, S) = Float(7)

\* C15 as amended: the minimum is 8.
C15_OptimumIsEight ==
    (Evaluated /\ instance = TwoJobsTwoMachines) =>
        /\ ~FLess(makespan[1], Float(8))
        /\ \E S \in FeasibleRows(instance) : Makespan(instance, S) = Float(8)

\* The Solution [a1, b1, a2, b2] was evaluated, with makespan 8.
C15_Witness ==
    /\ Evaluated
    /\ instance = TwoJobsTwoMachines
    /\ Order(solution_a) = <<<<0, 0>>, <<1, 0>>, <<0, 1>>, <<1, 1>>>>
    /\ makespan[1] = Float(8)

\* C16: two runs of a tabu-search worker with the same Instance, the same
\* initial Solution, the same seed and the same stopping condition end with
\* the same best makespan, whatever number of neighbors each timed
\* neighborhood generation produces before its deadline.
C16_SameBestInBothRuns ==
    (worker # <<>> /\ worker.run = 2 /\ worker.state = "done")
        => Makespan(instance, worker.best) = worker.first_best[1]

\* The keys of the moves of the run are pairwise distinct.
DistinctMoves(w) ==
    \A i \in 1..Len(w.moves), j \in 1..Len(w.moves) : w.moves[i] = w.moves[j] => i = j

\* C18: the tabu list never holds more than L keys, and after k > L moves to
\* Solutions with pairwise distinct state keys it holds exactly the keys of
\* the L most recent moves, oldest first.
C18_TabuListIsBoundedFifo ==
    worker # <<>> =>
        /\ Len(worker.tabu) <= worker.tabu_list_size
        /\ (Len(worker.moves) > worker.tabu_list_size /\ DistinctMoves(worker))
              => worker.tabu = SubSeq(worker.moves,
                                      Len(worker.moves) - worker.tabu_list_size + 1,
                                      Len(worker.moves))

\* Three moves with distinct keys were made with capacity 2.
C18_Witness ==
    /\ worker # <<>>
    /\ worker.tabu_list_size = 2
    /\ Len(worker.moves) = 3
    /\ DistinctMoves(worker)

\* C19: within a run best.makespan never increases from one iteration to the
\* next, whatever neighbor is accepted as current, and best changes only
\* when current.makespan is strictly smaller than best.makespan.
C19_BestNeverWorsens ==
    [][(worker # <<>> /\ worker' # <<>> /\ worker'.run = worker.run)
        => /\ ~FLess(Makespan(instance, worker.best), Makespan(instance, worker'.best))
           /\ worker'.best # worker.best
                => /\ worker'.best = worker'.current
                   /\ FLess(Makespan(instance, worker'.current),
                            Makespan(instance, worker.best))]_vars

\* The reset rule has just forced a neighbor worse than best as current,
\* after an earlier improvement of best.
C19_Witness ==
    /\ worker # <<>>
    /\ worker.last = "forced"
    /\ worker.best # worker.seed
    /\ FLess(Makespan(instance, worker.best), Makespan(instance, worker.current))

\* C17: for every genetic-algorithm call with population size P and any
\* caller-supplied population (absent, shorter than P, of length P, longer
\* than P) the population handed to the GA engine has exactly P individuals,
\* and the engine runs once on it.
C17_PopulationOfSizeP ==
    ga_pc # "idle" =>
        /\ Len(ga_parameters.population) = ga_parameters.population_size
        /\ Len(ga_result_population) = ga_parameters.population_size
        /\ ga_step.engines = 1

MinMakespan(population) == Min(population).makespan

\* The individuals a step replaced.
Replaced == {i \in 1..Len(ga_step.before) : ga_result_population[i] # ga_step.before[i]}

C24_ReturnedNotWorseThanSeeds ==
    outcome = "returned" =>
        \A i \in 1..Len(ts_parameters.initial_solutions) :
            ts_best_solution.makespan <= ts_parameters.initial_solutions[i].makespan

----------------------------------------------------------------------------
\* Claims about repeated and concurrent calls.

\* The Solutions the workers of the current call emitted, in worker order.
EmittedByCall == [i \in 1..Len(processes) |-> processes[i].emitted[1]]

\* C22: after every tabu-search call that returns on a Solver object, the
\* second and later calls included, ts_all_solutions holds exactly one
\* Solution per worker of that call, in benchmark mode the series hold exactly
\* one entry per worker of that call with entry i belonging to worker i, and
\* the returned ts_best_solution is a Solution a worker of that call emitted.
C22_OneEntryPerWorkerOfTheCall ==
    outcome = "returned" =>
        /\ ts_all_solutions = EmittedByCall
        /\ ts_benchmark =>
             ts_iterations = [i \in 1..Len(processes) |-> processes[i].tabu_id]
        /\ \E i \in 1..Len(processes) : ts_best_solution = processes[i].emitted[1]

\* The result files of the workers of Solver s that have ended are in the
\* directory as those workers wrote them, for as long as s has not read them.
OwnFilesIntact(s) ==
    solvers[s].pc \in {"joining", "collecting"} =>
        \A i \in 1..Len(solvers[s].processes) :
            LET p == solvers[s].processes[i]
            IN  (p.state = "done" /\ p.tabu_id >= solvers[s].idx) =>
                    /\ p.tabu_id \in DOMAIN tmp_dir.files
                    /\ tmp_dir.files[p.tabu_id] = ConcurrentFile(s, p.tabu_id, p.emitted[1])

\* C23: two tabu-search calls that run at the same time do not interfere:
\* under every interleaving neither call deletes, overwrites or reads a
\* worker result file of the other, and each call returns the minimum over
\* its own workers' results.
C23_ConcurrentCallsDoNotInterfere ==
    \A s \in 1..2 :
        /\ OwnFilesIntact(s)
        /\ \A k \in 1..Len(solvers[s].read_from) : solvers[s].read_from[k] = s
        /\ solvers[s].outcome # "FileNotFoundError"
        /\ solvers[s].outcome = "returned" =>
             solvers[s].ts_best_solution =
                 Min([i \in 1..Len(solvers[s].processes) |->
                          solvers[s].processes[i].emitted[1]])

----------------------------------------------------------------------------
\* Claims about termination (specification SpecLive).

\* No worker process of the call has ended without a result.
NoWorkerFails == \A i \in 1..Len(processes) : processes[i].state # "failed"

\* The worker in process i has stopped after exactly N iterations and has
\* emitted its best Solution.
StoppedAfterN(i) ==
    /\ i \in 1..Len(processes)
    /\ processes[i].state = "done"
    /\ ts_workers.iterations[i].count = ts_workers.stopping_condition
    /\ Len(processes[i].emitted) = 1
    /\ IsSolution(processes[i].emitted[1])

====
